---------------------------- MODULE Spec2Model ----------------------------
(***************************************************************************)
(* WS-Discovery responder of the virtual ONVIF server                      *)
(* (src/src/discovery-server.js), and the startup sequence and the         *)
(* process-level error handlers of src/main.js.                            *)
(*                                                                         *)
(* Strings are sequences of tokens, so that String.indexOf is a real       *)
(* sub-sequence search.  An inbound datagram is described by the shape of  *)
(* its XML text; Xml builds the element tree, ParseString converts it to   *)
(* the JavaScript value xml2js hands to the callback, and the handler      *)
(* walks that value with the property accesses of the source.              *)
(***************************************************************************)
EXTENDS Integers, Sequences, FiniteSets, TLC

VARIABLES
    servers,          \* this.servers: the registered devices, in registration order
    messageCounters,  \* this.messageCounters: uuid -> next MessageNumber
    socket,           \* this.socket (NULL or a socket id)
    responseSocket,   \* this.responseSocket (NULL or a socket id)
    socks,            \* the dgram sockets, by id: a receive socket p and the send
                      \* socket p + 1 created by the same start()
    sent,             \* the datagrams handed to responseSocket.send, in send order
    handled,          \* number of 'message' events handled so far
    last,             \* the most recent step: what ran, on what input, what it logged
    uncaught,         \* exceptions that reached process.on('uncaughtException')
    running,          \* the process is alive
    config,           \* main.js: the parsed configuration file
    main              \* main.js: the state of the startup function (lines 121-209)

vars == <<servers, messageCounters, socket, responseSocket, socks, sent,
          handled, last, uncaught, running, config, main>>

-----------------------------------------------------------------------------
(* Bounds of the model *)

MaxDevices == 3

MaxPairs == 2

MaxEvents == 2

-----------------------------------------------------------------------------
(* JavaScript values.  Every value has the same four fields so that values  *)
(* of different JavaScript types can be compared.                           *)

NoFields == [k \in {} |-> 0]

Undef == [t |-> "undefined", s |-> <<>>, f |-> NoFields, a |-> <<>>]

Null == [t |-> "null", s |-> <<>>, f |-> NoFields, a |-> <<>>]

\* The abrupt completion of an expression: a TypeError is being thrown.
Throw == [t |-> "TypeError", s |-> <<>>, f |-> NoFields, a |-> <<>>]

Str(s) == [t |-> "string", s |-> s, f |-> NoFields, a |-> <<>>]

Obj(f) == [t |-> "object", s |-> <<>>, f |-> f, a |-> <<>>]

Arr(a) == [t |-> "array", s |-> <<>>, f |-> NoFields, a |-> a]

IsThrow(v) == v.t = "TypeError"

\* typeof v
TypeOf(v) ==
    IF v.t \in {"object", "array", "null"} THEN "object" ELSE v.t

\* v[k] for a property name k: reading a property of undefined or null throws.
Prop(v, k) ==
    IF IsThrow(v) THEN Throw
    ELSE IF v.t \in {"undefined", "null"} THEN Throw
    ELSE IF v.t = "object" /\ k \in DOMAIN v.f THEN v.f[k]
    ELSE Undef

\* v[0]
Elem0(v) ==
    IF IsThrow(v) THEN Throw
    ELSE IF v.t \in {"undefined", "null"} THEN Throw
    ELSE IF v.t = "array" /\ Len(v.a) > 0 THEN v.a[1]
    ELSE Undef

\* `${v}` inside a template literal
TemplateText(v) ==
    IF v.t = "string" THEN v.s
    ELSE IF v.t = "undefined" THEN <<"undefined">>
    ELSE IF v.t = "null" THEN <<"null">>
    ELSE <<"[object Object]">>

\* hay.indexOf(needle): the 0-based position of the first occurrence, or -1.
IndexOf(hay, needle) ==
    LET n == Len(needle)
        hits == {i \in 1..(Len(hay) - n + 1) : SubSeq(hay, i, i + n - 1) = needle}
    IN IF hits = {} THEN -1
       ELSE (CHOOSE i \in hits : \A j \in hits : i <= j) - 1

-----------------------------------------------------------------------------
(* The text of a datagram.  An element has a qualified name, possibly       *)
(* attributes (namespace declarations are attributes), character data and   *)
(* child elements.                                                          *)

El(prefix, local, attrs, text, kids) ==
    [prefix |-> prefix, local |-> local, attrs |-> attrs, text |-> text, kids |-> kids]

NetworkVideoTransmitter == <<"NetworkVideoTransmitter">>

\* The Types texts a probe may carry.
TypesNVT == <<"dn:", "NetworkVideoTransmitter">>

TypesOther == <<"tns:", "SomeOtherDevice">>

TypesList == <<"tds:", "Device", " ", "dn:", "NetworkVideoTransmitter">>

TypeTexts == {TypesNVT, TypesOther, TypesList}

\* The shape of one datagram:
\*   wf     "xml" well-formed XML, "garbage" not well-formed, "blank" only white space
\*   root   local name of the root element
\*   hdr    the root has a Header child
\*   mid    MessageID in the Header: "none", "plain" (text only), "object"
\*          (attributes and text), "notext" (attributes, no text)
\*   body   "none" no Body, "empty" a Body without Probe, "probe" a Body with a Probe
\*   types  Types in the Probe, the same four forms as mid
Shape(wf, root, hdr, mid, midText, body, types, typesText) ==
    [wf |-> wf, root |-> root, hdr |-> hdr, mid |-> mid, midText |-> midText,
     body |-> body, types |-> types, typesText |-> typesText]

Probe(mid, midText, types, typesText) ==
    Shape("xml", "Envelope", TRUE, mid, midText, "probe", types, typesText)

NoDatagram == Shape("none", "", FALSE, "none", <<>>, "none", "none", <<>>)

Garbage == Shape("garbage", "", FALSE, "none", <<>>, "none", "none", <<>>)

Blank == Shape("blank", "", FALSE, "none", <<>>, "none", "none", <<>>)

\* <Foo/>: XML, but no Envelope
NoEnvelope == Shape("xml", "Foo", FALSE, "none", <<>>, "none", "none", <<>>)

\* an Envelope with a Body and no Header
NoHeader == Shape("xml", "Envelope", FALSE, "none", <<>>, "probe", "none", <<>>)

\* an Envelope whose Header has no MessageID
NoMessageID == Shape("xml", "Envelope", TRUE, "none", <<>>, "probe", "none", <<>>)

Malformed == {NoEnvelope, NoHeader, NoMessageID}

\* Datagrams with a MessageID in the Header.
IdA == <<"uuid:", "a">>

IdB == <<"uuid:", "b">>

Envelopes ==
    {Probe("plain", IdA, "none", <<>>),
     Probe("plain", IdB, "none", <<>>),
     Probe("object", IdA, "none", <<>>),
     Probe("notext", <<>>, "none", <<>>),
     Probe("plain", IdA, "plain", <<>>),
     Probe("plain", IdA, "notext", <<>>),
     Probe("object", IdB, "object", TypesNVT),
     Shape("xml", "Envelope", TRUE, "plain", IdA, "none", "none", <<>>)}
    \cup {Probe("plain", IdA, "plain", ty) : ty \in TypeTexts}
    \cup {Probe("plain", IdA, "object", ty) : ty \in {TypesNVT, TypesOther}}

Datagrams == {Garbage, Blank} \cup Malformed \cup Envelopes

\* The datagrams that arrive from the second source as well as from the first.
FromBoth ==
    {Garbage, Probe("plain", IdA, "none", <<>>), Probe("object", IdB, "object", TypesNVT)}

FormEl(prefix, local, form, text) ==
    IF form = "plain" THEN <<El(prefix, local, FALSE, text, <<>>)>>
    ELSE IF form = "object" THEN <<El(prefix, local, TRUE, text, <<>>)>>
    ELSE IF form = "notext" THEN <<El(prefix, local, TRUE, <<>>, <<>>)>>
    ELSE <<>>

\* The element tree of a well-formed datagram.
Xml(d) ==
    LET types  == FormEl("d", "Types", d.types, d.typesText)
        probe  == El("d", "Probe", FALSE, <<>>, types)
        body   == IF d.body = "none" THEN <<>>
                  ELSE IF d.body = "empty" THEN <<El("s", "Body", FALSE, <<>>, <<>>)>>
                  ELSE <<El("s", "Body", FALSE, <<>>, <<probe>>)>>
        action == El("wsa", "Action", FALSE, <<"Probe">>, <<>>)
        header == IF d.hdr
                  THEN <<El("s", "Header", FALSE, <<>>,
                            FormEl("wsa", "MessageID", d.mid, d.midText) \o <<action>>)>>
                  ELSE <<>>
    IN IF d.root = "Envelope"
       THEN El("s", "Envelope", TRUE, <<>>, header \o body)
       ELSE El("", d.root, FALSE, <<>>, <<>>)

-----------------------------------------------------------------------------
(* xml2js.parseString with tagNameProcessors: [stripPrefix] and the         *)
(* default options (explicitArray, explicitRoot, attrkey "$", charkey "_"). *)

\* processors.stripPrefix: the local part of a qualified name
StripPrefix(e) == e.local

\* The elements of kids whose processed name is k, in document order.
RECURSIVE Named(_, _)
Named(kids, k) ==
    IF kids = <<>> THEN <<>>
    ELSE IF StripPrefix(Head(kids)) = k
         THEN <<Head(kids)>> \o Named(Tail(kids), k)
         ELSE Named(Tail(kids), k)

\* The value of one element: its text when it has neither attributes nor
\* children ('' when empty), otherwise an object holding the attributes under
\* "$", non-blank text under "_" and every child name as an array.
RECURSIVE Convert(_)
Convert(e) ==
    IF ~e.attrs /\ e.kids = <<>> THEN Str(e.text)
    ELSE LET names == {StripPrefix(e.kids[i]) : i \in 1..Len(e.kids)}
             keys  == names \cup (IF e.attrs THEN {"$"} ELSE {})
                            \cup (IF e.text # <<>> THEN {"_"} ELSE {})
         IN Obj([k \in keys |->
                   IF k = "$" THEN Obj(NoFields)
                   ELSE IF k = "_" THEN Str(e.text)
                   ELSE LET same == Named(e.kids, k)
                        IN Arr([i \in 1..Len(same) |-> Convert(same[i])])])

\* A parser that reports no error: text that is not well-formed gives an
\* empty result.
ParseStringLenient(d) ==
    IF d.wf \in {"garbage", "blank"}
    THEN [err |-> FALSE, result |-> Obj(NoFields)]
    ELSE LET root == Xml(d)
         IN [err |-> FALSE,
             result |-> Obj([k \in {StripPrefix(root)} |-> Convert(root)])]

\* What parseString hands to its callback: an error for text that is not
\* well-formed, (null, null) for blank text, else (null, result).
ParseString(d) ==
    IF d.wf = "garbage" THEN [err |-> TRUE, result |-> Undef]
    ELSE IF d.wf = "blank" THEN [err |-> FALSE, result |-> Null]
    ELSE LET root == Xml(d)
         IN [err |-> FALSE,
             result |-> Obj([k \in {StripPrefix(root)} |-> Convert(root)])]

\* parseString catches what its callback throws.  For well-formed text the
\* callback runs when the parser has ended, and the exception is thrown on.
\* For blank text the callback runs before the parser is used; the exception
\* is then either thrown on or handed to the callback as an error, depending
\* on the parser's listeners at that moment: both outcomes are taken.
HandsBack(d) == IF d.wf = "blank" THEN BOOLEAN ELSE {FALSE}

-----------------------------------------------------------------------------
(* The registered devices.  A device is what getDiscoveryInfo() returns:    *)
(* its uuid, the host IP its MAC resolved to, and its server port.  The     *)
(* configuration gives every device its own uuid; two devices may share a   *)
(* host IP.                                                                 *)

NULL == 0

Info(i) == [uuid |-> i, hostname |-> (i + 1) \div 2, port |-> 8080 + i]

\* A device whose getDiscoveryInfo() carries no hostname (line 107 tests it).
Hostless(i) == [uuid |-> i, hostname |-> 0, port |-> 8080 + i]

\* The device lists a responder may be constructed with.  One list holds a
\* single device, one MaxDevices devices whose uuids are not in ascending
\* order and of which two share a host IP, one a device with a host IP and
\* a device without.
DeviceLists ==
    {<<Info(1)>>, [i \in 1..MaxDevices |-> Info((i % MaxDevices) + 1)],
     <<Info(1), Hostless(2)>>}

\* The sources probes come from: remote.address, remote.port.
RemoteA == [address |-> "10.0.0.7", port |-> 40001]

RemoteB == [address |-> "10.0.0.9", port |-> 40002]

Remotes == {RemoteA, RemoteB}

NoRemote == [address |-> "", port |-> 0]

\* constructor: every registered uuid starts at 0
InitialCounter == 0

NewCounters(list) ==
    [u \in {list[i].uuid : i \in 1..Len(list)} |-> InitialCounter]

-----------------------------------------------------------------------------
(* The callback of parseString: lines 26-91.                                *)

\* A filter that lets every text through.
MatchesAny(probeType) ==
    IF probeType.t = "string" THEN "yes" ELSE "throw"

\* line 46: probeType === '' || probeType.indexOf('NetworkVideoTransmitter') > -1
\* "yes", "no", or "throw" when probeType has no indexOf.
Matches(probeType) ==
    IF probeType.t = "string"
    THEN IF probeType.s = <<>> \/ IndexOf(probeType.s, NetworkVideoTransmitter) > -1
         THEN "yes" ELSE "no"
    ELSE "throw"

\* lines 55-83: the ProbeMatch composed for one device
ProbeMatch(info, probeUuid, messageNo) ==
    [relatesTo |-> TemplateText(probeUuid),
     messageNumber |-> messageNo,
     address |-> <<"urn:uuid:", info.uuid>>,
     xaddrs |-> <<info.hostname, info.port>>]

\* A counter stored back unchanged.
NextNumberStuck(messageNo) == messageNo

\* line 86: the counter value stored back
NextNumber(messageNo) == messageNo + 1

\* One counter shared by all devices.
SharedKey(info) == 1

\* lines 52 and 86: the key of a device's counter in messageCounters
CounterKey(info) == info.uuid

\* The devices visited last to first.
RECURSIVE ForEachServerBackwards(_, _, _, _, _, _, _)
ForEachServerBackwards(list, i, probeUuid, remote, rs, ctrs, out) ==
    IF i > Len(list) THEN [threw |-> FALSE, ctrs |-> ctrs, out |-> out]
    ELSE LET info      == list[Len(list) + 1 - i]
             messageNo == ctrs[CounterKey(info)]
             response  == ProbeMatch(info, probeUuid, messageNo)
             ctrs2     == [ctrs EXCEPT ![CounterKey(info)] = NextNumber(messageNo)]
         IN IF rs = NULL
            THEN [threw |-> TRUE, ctrs |-> ctrs2, out |-> out]
            ELSE ForEachServerBackwards(list, i + 1, probeUuid, remote, rs, ctrs2,
                               Append(out, [msg |-> response, to |-> remote, via |-> rs]))

\* lines 50-90: servers.forEach.  One pass per device from index i on: read
\* the counter, compose, store the incremented counter, send.  Sending on a
\* null responseSocket throws and ends the loop.
RECURSIVE ForEachServer(_, _, _, _, _, _, _)
ForEachServer(list, i, probeUuid, remote, rs, ctrs, out) ==
    IF i > Len(list) THEN [threw |-> FALSE, ctrs |-> ctrs, out |-> out]
    ELSE LET info      == list[i]
             messageNo == ctrs[CounterKey(info)]
             response  == ProbeMatch(info, probeUuid, messageNo)
             ctrs2     == [ctrs EXCEPT ![CounterKey(info)] = NextNumber(messageNo)]
         IN IF rs = NULL
            THEN [threw |-> TRUE, ctrs |-> ctrs2, out |-> out]
            ELSE ForEachServer(list, i + 1, probeUuid, remote, rs, ctrs2,
                               Append(out, [msg |-> response, to |-> remote, via |-> rs]))

\* lines 31-44: the two fields read from the parsed value
ProbeUuid0(result) ==
    Elem0(Prop(Elem0(Prop(Prop(result, "Envelope"), "Header")), "MessageID"))

ProbeType0(result) ==
    LET v == Elem0(Prop(Elem0(Prop(Elem0(Prop(Prop(result, "Envelope"),
                                              "Body")), "Probe")), "Types"))
    IN IF IsThrow(v) THEN Str(<<>>) ELSE v

\* The parsed field used as it is.
TextOfRaw(v) == v

\* lines 39-43: if (typeof x === 'object') x = x._
TextOf(v) == IF TypeOf(v) = "object" THEN Prop(v, "_") ELSE v

\* One run of the callback with (err, result).
Callback(err, result, list, remote, rs, ctrs) ==
    IF err
    THEN [threw |-> FALSE, logs |-> <<"trace: Failed to parse discovery message">>,
          ctrs |-> ctrs, out |-> <<>>]
    ELSE LET uuid0 == ProbeUuid0(result)
             type1 == TextOf(ProbeType0(result))
             uuid1 == TextOf(uuid0)
             m     == Matches(type1)
         IN IF IsThrow(uuid0) \/ m = "throw"
            THEN [threw |-> TRUE, logs |-> <<>>, ctrs |-> ctrs, out |-> <<>>]
            ELSE IF m = "no"
            THEN [threw |-> FALSE, logs |-> <<>>, ctrs |-> ctrs, out |-> <<>>]
            ELSE LET r == ForEachServer(list, 1, uuid1, remote, rs, ctrs, <<>>)
                 IN [threw |-> r.threw, logs |-> <<"trace: Discovery probe received">>,
                     ctrs |-> r.ctrs, out |-> r.out]

\* parseString over the datagrams of the model
Parsed == [d \in Datagrams |-> ParseString(d)]

\* lines 24-93: the 'message' handler.  parseString runs the callback; what
\* the callback throws leaves the handler, unless parseString hands it back
\* to the callback as an error.
OnMessageResult(d, handsBack, list, remote, rs, ctrs) ==
    LET p     == Parsed[d]
        first == Callback(p.err, p.result, list, remote, rs, ctrs)
    IN IF first.threw /\ handsBack
       THEN LET again == Callback(TRUE, Undef, list, remote, rs, first.ctrs)
            IN [threw |-> again.threw, logs |-> first.logs \o again.logs,
                ctrs |-> again.ctrs, out |-> first.out \o again.out]
       ELSE first

\* main.js 47-50: the process keeps running after an uncaught exception,
\* because a handler is installed that only logs.
AfterUncaught(alive) == alive


-----------------------------------------------------------------------------
(* State machine *)

\* closed: the sockets close() was called on during the step, in call order.
Step(act, sock, dgram, remote, logs, threw) ==
    [act |-> act, sock |-> sock, dgram |-> dgram, remote |-> remote,
     logs |-> logs, threw |-> threw, closed |-> <<>>]

\* At most MaxPairs pairs of sockets are open at a time.
SocketIds == 1..(2 * MaxPairs)

\* A socket that was never created or has been closed: it does nothing, and
\* its id is free for a new socket.
NoSocket == [kind |-> "none", st |-> "closed", joined |-> {}]

\* The receive-socket ids no open socket uses.
FreePairs == {p \in SocketIds : p % 2 = 1 /\ socks[p].st = "closed"}

\* The responder on its own: no configuration file is read and the startup
\* function of main.js does not run.
NoConfig == [useDirectUrls |-> "absent", onvif |-> <<>>]

NotStarted ==
    [pc |-> "idle", idx |-> 0, servers |-> <<>>, proxies |-> <<>>,
     listeners |-> <<>>, reported |-> <<>>, discoveries |-> <<>>,
     relays |-> <<>>, calls |-> <<>>]

\* constructor, lines 6-18
Init ==
    /\ servers \in DeviceLists
    /\ messageCounters = NewCounters(servers)
    /\ socket = NULL
    /\ responseSocket = NULL
    /\ socks = [p \in SocketIds |-> NoSocket]
    /\ sent = <<>>
    /\ handled = 0
    /\ last = Step("new", NULL, NoDatagram, NoRemote, <<>>, FALSE)
    /\ uncaught = 0
    /\ running = TRUE
    /\ config = NoConfig
    /\ main = NotStarted

\* start(), lines 20-22 and 100: two new sockets replace the references, the
\* handlers are attached to the receive socket and its bind is requested.
\* The sockets the references pointed to are left as they are.
Start ==
    /\ running
    /\ FreePairs # {}
    /\ LET p == CHOOSE q \in FreePairs : \A r \in FreePairs : q <= r
       IN /\ socks' = [socks EXCEPT
                         ![p] = [kind |-> "recv", st |-> "binding", joined |-> {}],
                         ![p + 1] = [kind |-> "send", st |-> "open", joined |-> {}]]
          /\ socket' = p
          /\ responseSocket' = p + 1
          /\ last' = Step("start", p, NoDatagram, NoRemote, <<>>, FALSE)
    /\ UNCHANGED <<servers, messageCounters, sent, handled, uncaught, running,
                   config, main>>

\* The hostnames collected in a list instead of a Set: one entry per device.
RECURSIVE HostnamesRepeated(_, _)
HostnamesRepeated(list, seen) ==
    IF list = <<>> THEN <<>>
    ELSE LET h == Head(list).hostname
         IN IF h # 0
            THEN <<h>> \o HostnamesRepeated(Tail(list), seen)
            ELSE HostnamesRepeated(Tail(list), seen)

\* lines 104-110: the distinct truthy hostnames, in registration order
RECURSIVE Hostnames(_, _)
Hostnames(list, seen) ==
    IF list = <<>> THEN <<>>
    ELSE LET h == Head(list).hostname
         IN IF h # 0 /\ h \notin seen
            THEN <<h>> \o Hostnames(Tail(list), seen \cup {h})
            ELSE Hostnames(Tail(list), seen)

\* lines 112-119: one addMembership on this.socket per hostname, each in its
\* own try/catch.  The call throws when this.socket is null, when the system
\* refuses the join (hostnames in fails) and when the socket is already a
\* member on that interface.
RECURSIVE JoinAll(_, _, _, _, _)
JoinAll(hosts, target, joined, fails, logs) ==
    IF hosts = <<>> THEN [joined |-> joined, logs |-> logs]
    ELSE LET h == Head(hosts)
         IN IF target = NULL \/ h \in fails \/ h \in joined
            THEN JoinAll(Tail(hosts), target, joined, fails,
                         Append(logs, "error: Failed to join multicast group"))
            ELSE JoinAll(Tail(hosts), target, joined \cup {h}, fails,
                         Append(logs, "trace: Joined multicast group"))

\* lines 100-120: the bind of receive socket s completes and its callback runs.
BindComplete(s, fails) ==
    /\ running
    /\ s \in SocketIds
    /\ socks[s].kind = "recv"
    /\ socks[s].st = "binding"
    /\ LET bound == [socks EXCEPT ![s].st = "bound"]
           hosts == Hostnames(servers, {})
           r     == JoinAll(hosts, socket,
                            IF socket = NULL THEN {} ELSE bound[socket].joined,
                            fails, <<"trace: Discovery server bound to port 3702">>)
       IN /\ socks' = IF socket = NULL THEN bound
                      ELSE [bound EXCEPT ![socket].joined = r.joined]
          /\ last' = Step("bind", s, NoDatagram, NoRemote, r.logs, FALSE)
    /\ UNCHANGED <<servers, messageCounters, socket, responseSocket, sent,
                   handled, uncaught, running, config, main>>

\* lines 95-97: the bind of receive socket s fails; the 'error' handler logs.
BindError(s) ==
    /\ running
    /\ s \in SocketIds
    /\ socks[s].kind = "recv"
    /\ socks[s].st = "binding"
    /\ socks' = [socks EXCEPT ![s].st = "failed"]
    /\ last' = Step("binderror", s, NoDatagram, NoRemote,
                    <<"error: Discovery server error">>, FALSE)
    /\ UNCHANGED <<servers, messageCounters, socket, responseSocket, sent,
                   handled, uncaught, running, config, main>>

\* A reference left as it was after close().
KeptRef(ref) == ref

\* lines 126 and 130: the reference is cleared after close()
ClearedRef(ref) == NULL

\* dgram's Socket.close(): it throws on a socket that is not running, else
\* the socket is closed and receives nothing more.
Close(table, s) ==
    IF table[s].st = "closed"
    THEN [threw |-> TRUE, table |-> table]
    ELSE [threw |-> FALSE, table |-> [table EXCEPT ![s] = NoSocket]]

\* lines 124-131: each reference that is set is closed, then cleared; what
\* close() throws ends stop().
StopResult(sock, rs, table) ==
    LET c1 == IF sock # NULL THEN Close(table, sock)
              ELSE [threw |-> FALSE, table |-> table]
        d1 == IF sock # NULL THEN <<sock>> ELSE <<>>
    IN IF c1.threw
       THEN [threw |-> TRUE, socket |-> sock, responseSocket |-> rs,
             table |-> c1.table, closed |-> d1]
       ELSE LET sock2 == IF sock # NULL THEN ClearedRef(sock) ELSE sock
                c2    == IF rs # NULL THEN Close(c1.table, rs)
                         ELSE [threw |-> FALSE, table |-> c1.table]
                d2    == IF rs # NULL THEN Append(d1, rs) ELSE d1
            IN IF c2.threw
               THEN [threw |-> TRUE, socket |-> sock2, responseSocket |-> rs,
                     table |-> c2.table, closed |-> d2]
               ELSE [threw |-> FALSE, socket |-> sock2,
                     responseSocket |-> IF rs # NULL THEN ClearedRef(rs) ELSE rs,
                     table |-> c2.table, closed |-> d2]

\* stop(), lines 123-132
Stop ==
    /\ running
    /\ LET r == StopResult(socket, responseSocket, socks)
       IN /\ socks' = r.table
          /\ socket' = r.socket
          /\ responseSocket' = r.responseSocket
          /\ last' = [Step("stop", NULL, NoDatagram, NoRemote, <<>>, r.threw)
                        EXCEPT !.closed = r.closed]
    /\ UNCHANGED <<servers, messageCounters, sent, handled, uncaught, running,
                   config, main>>

\* The send-order log entries of one handler run, stamped with its event number.
Stamp(out, n) ==
    [i \in 1..Len(out) |->
        [msg |-> out[i].msg, to |-> out[i].to, via |-> out[i].via, evt |-> n]]

\* lines 24-93: a datagram d from remote arrives on the bound receive socket s
\* and its 'message' handler runs to completion.
OnMessage(s, d, remote, handsBack) ==
    /\ running
    /\ handled < MaxEvents
    /\ s \in SocketIds
    /\ socks[s].kind = "recv"
    /\ socks[s].st = "bound"
    /\ LET r == OnMessageResult(d, handsBack, servers, remote, responseSocket,
                                messageCounters)
       IN /\ messageCounters' = r.ctrs
          /\ sent' = sent \o Stamp(r.out, handled + 1)
          /\ last' = Step("message", s, d, remote,
                          IF r.threw THEN Append(r.logs, "error: Uncaught Exception")
                          ELSE r.logs,
                          r.threw)
          /\ uncaught' = IF r.threw THEN uncaught + 1 ELSE uncaught
          /\ running' = IF r.threw THEN AfterUncaught(running) ELSE running
    /\ handled' = handled + 1
    /\ UNCHANGED <<servers, socket, responseSocket, socks, config, main>>

\* The arrivals of the model: a datagram and its source.
Arrivals == (Datagrams \X {RemoteA}) \cup (FromBoth \X {RemoteB})

HostSets == SUBSET {Info(i).hostname : i \in 1..MaxDevices}

Next ==
    \/ Start
    \/ Stop
    \/ \E s \in SocketIds : \E fails \in HostSets : BindComplete(s, fails)
    \/ \E s \in SocketIds : BindError(s)
    \/ \E s \in SocketIds : \E a \in Arrivals : \E handsBack \in HandsBack(a[1]) :
          OnMessage(s, a[1], a[2], handsBack)

Spec == Init /\ [][Next]_vars

-----------------------------------------------------------------------------
(* main.js, lines 121-209: the startup function.  It runs without           *)
(* interruption from one await to the next; config.onvif is walked in file  *)
(* order.                                                                   *)

MaxConfig == 3

\* One entry of config.onvif: the mac of the virtual interface, the device's
\* own ports and the ports of the camera behind it.  A port of 0 is a port
\* that is not configured.
Device(mac, rtsp, snapshot, targetRtsp, targetSnapshot) ==
    [mac |-> mac,
     ports |-> [server |-> 8081, rtsp |-> rtsp, snapshot |-> snapshot],
     target |-> [hostname |-> "camera",
                 ports |-> [rtsp |-> targetRtsp, snapshot |-> targetSnapshot]]]

DeviceShapes ==
    {Device("onhost", 8554, 8580, 554, 80),
     Device("missing", 8554, 8580, 554, 80),
     Device("onhost", 0, 8580, 554, 0),
     Device("onhost", 8554, 0, 554, 0),
     Device("onhost", 8554, 8580, 0, 80)}

\* The configuration files of the model: useDirectUrls set, cleared or left
\* out, and up to MaxConfig devices.
Configs ==
    [useDirectUrls : {"true", "false", "absent"},
     onvif : UNION {[1..n -> DeviceShapes] : n \in 0..MaxConfig}]

\* line 123: config.useDirectUrls || false
UseDirectUrls(cfg) == cfg.useDirectUrls = "true"

\* server.getHostname(): the IP of the host interface that carries the mac
\* of the k-th device, 0 when no interface does.
GetHostname(c, k) == IF c.mac = "onhost" THEN k ELSE 0

\* The started server of the k-th device, as getDiscoveryInfo() describes it.
Server(c, k) ==
    [uuid |-> k, hostname |-> GetHostname(c, k), port |-> c.ports.server]

\* lines 159-164 and 166-171: one entry of proxies
Route(sourceHostname, sourcePort, targetHostname, targetPort) ==
    [sourceHostname |-> sourceHostname, sourcePort |-> sourcePort,
     targetHostname |-> targetHostname, targetPort |-> targetPort]

\* An entry pushed for every port of the device itself, whether or not the
\* target has that port.
RoutesForOwnPorts(c, host) ==
    (IF c.ports.rtsp # 0
     THEN <<Route(host, c.ports.rtsp, c.target.hostname, c.target.ports.rtsp)>>
     ELSE <<>>)
    \o
    (IF c.ports.snapshot # 0
     THEN <<Route(host, c.ports.snapshot, c.target.hostname,
                  c.target.ports.snapshot)>>
     ELSE <<>>)

\* lines 158-171: the entries pushed for one device
Routes(c, host) ==
    (IF c.ports.rtsp # 0 /\ c.target.ports.rtsp # 0
     THEN <<Route(host, c.ports.rtsp, c.target.hostname, c.target.ports.rtsp)>>
     ELSE <<>>)
    \o
    (IF c.ports.snapshot # 0 /\ c.target.ports.snapshot # 0
     THEN <<Route(host, c.ports.snapshot, c.target.hostname,
                  c.target.ports.snapshot)>>
     ELSE <<>>)

\* Routes pushed whatever the mode.
BuildsRoutesAlways(direct) == TRUE

\* line 157: if (!useDirectUrls)
BuildsRoutes(direct) == ~direct

\* The promise of sleep() dropped: the loop goes on at once.
NotAwaited(ms) == FALSE

\* line 154: await sleep(2000) suspends the function until the timer fires
Awaits(ms) == TRUE

\* lines 183-208: after the loop, the responder is created and started when
\* a device started, then createProxy is called for every entry of proxies.
AfterLoop(m) ==
    [m EXCEPT !.discoveries = IF Len(m.servers) > 0
                              THEN Append(@, m.servers) ELSE @,
              !.relays = @ \o m.proxies,
              !.calls = @ \o (IF Len(m.servers) > 0
                              THEN <<"discovery.start">> ELSE <<>>)
                          \o [i \in 1..Len(m.proxies) |-> "createProxy"],
              !.pc = "done"]

RECURSIVE RunFrom(_, _)
RECURSIVE Resume(_, _)

\* lines 134-154 and 173-179: the loop from its k-th pass on, up to the next
\* await, the exit of the process or the end of the function.
RunFrom(k, m) ==
    IF k > Len(config.onvif) THEN AfterLoop(m)
    ELSE LET c == config.onvif[k]
         IN IF GetHostname(c, k) # 0
            THEN LET m1 == [m EXCEPT !.listeners[k] = "pending",
                                     !.servers = Append(@, Server(c, k)),
                                     !.calls = Append(@, "startServer"),
                                     !.idx = k]
                 IN IF Awaits(2000) THEN [m1 EXCEPT !.pc = "sleep"]
                    ELSE Resume(k, m1)
            ELSE [m EXCEPT !.reported = Append(@, k), !.idx = k,
                           !.pc = "exited"]

\* lines 156-172: the rest of the k-th pass, after the sleep; then the loop
\* goes on.
Resume(k, m) ==
    LET c == config.onvif[k]
    IN RunFrom(k + 1,
               IF BuildsRoutes(UseDirectUrls(config))
               THEN [m EXCEPT !.proxies = @ \o Routes(c, GetHostname(c, k))]
               ELSE m)

\* calls, in main: the calls of startServer, discovery.start and createProxy
\* made so far, in call order.
\*
\* The state after a run of the startup function that ends in m.  A
\* responder created in the run is constructed over the started servers
\* and started (discovery-server.js 6-22); process.exit ends the process.
MainStep(m) ==
    /\ main' = m
    /\ running' = (m.pc # "exited")
    /\ IF Len(m.discoveries) > Len(main.discoveries)
       THEN /\ servers' = m.servers
            /\ messageCounters' = NewCounters(m.servers)
            /\ socks' = [socks EXCEPT
                           ![1] = [kind |-> "recv", st |-> "binding", joined |-> {}],
                           ![2] = [kind |-> "send", st |-> "open", joined |-> {}]]
            /\ socket' = 1
            /\ responseSocket' = 2
            /\ last' = Step("start", 1, NoDatagram, NoRemote, <<>>, FALSE)
       ELSE UNCHANGED <<servers, messageCounters, socks, socket, responseSocket,
                        last>>
    /\ UNCHANGED <<sent, handled, uncaught, config>>

InitMain ==
    /\ config \in Configs
    /\ main = [NotStarted EXCEPT
                 !.pc = "start",
                 !.listeners = [k \in 1..Len(config.onvif) |-> "none"]]
    /\ servers = <<>>
    /\ messageCounters = NewCounters(<<>>)
    /\ socket = NULL
    /\ responseSocket = NULL
    /\ socks = [p \in SocketIds |-> NoSocket]
    /\ sent = <<>>
    /\ handled = 0
    /\ last = Step("new", NULL, NoDatagram, NoRemote, <<>>, FALSE)
    /\ uncaught = 0
    /\ running = TRUE

\* line 133: the startup function is called and runs to its first await
Run ==
    /\ running
    /\ main.pc = "start"
    /\ MainStep(RunFrom(1, main))

\* The timer of sleep() fires and the function goes on to its next await.
\* Timers run after the work that was already due: a listener whose bind was
\* requested before the sleep has made its bind attempt by then.
TimerFires ==
    /\ running
    /\ main.pc = "sleep"
    /\ \A k \in DOMAIN main.listeners : main.listeners[k] # "pending"
    /\ MainStep(Resume(main.idx, main))

\* startServer() of the k-th device: its listener binds hostIP:serverPort.
ListenBound(k) ==
    /\ running
    /\ k \in DOMAIN main.listeners
    /\ main.listeners[k] = "pending"
    /\ main' = [main EXCEPT !.listeners[k] = "bound"]
    /\ UNCHANGED <<servers, messageCounters, socket, responseSocket, socks, sent,
                   handled, last, uncaught, running, config>>

\* The bind of the k-th listener fails; the error is reported and nothing
\* else changes.
ListenError(k) ==
    /\ running
    /\ k \in DOMAIN main.listeners
    /\ main.listeners[k] = "pending"
    /\ main' = [main EXCEPT !.listeners[k] = "failed"]
    /\ UNCHANGED <<servers, messageCounters, socket, responseSocket, socks, sent,
                   handled, last, uncaught, running, config>>

NextMain ==
    \/ Run
    \/ TimerFires
    \/ \E k \in 1..MaxConfig : ListenBound(k)
    \/ \E k \in 1..MaxConfig : ListenError(k)

SpecMain == InitMain /\ [][NextMain]_vars


-----------------------------------------------------------------------------
(* Vocabulary of the properties.  Everything here is read off the text of   *)
(* the datagram and the log of datagrams sent, not off the handler.         *)

\* The datagram is a discovery envelope: an Envelope whose Header holds a
\* MessageID.
IsEnvelope(d) == d.wf = "xml" /\ d.root = "Envelope" /\ d.hdr /\ d.mid # "none"

\* The datagram is a probe that carries no Types element.
NoTypes(d) == IsEnvelope(d) /\ d.types = "none"

\* The step being taken is the handling of one datagram.
MessageStep == handled' = handled + 1

\* The datagrams sent by the step being taken, in send order.
NewlySent == SubSeq(sent', Len(sent) + 1, Len(sent'))

\* start() has been called and stop() has not been called since.
Started == socket # NULL /\ responseSocket # NULL

\* The datagrams sent so far for the device with uuid u, in send order.
SentFor(u) == SelectSeq(sent, LAMBDA r : r.msg.address = <<"urn:uuid:", u>>)

\* The last step handled a datagram, and answered it.
Answered == last.act = "message" /\ sent # <<>> /\ sent[Len(sent)].evt = handled

-----------------------------------------------------------------------------
(* C1: with the responder started and N registered devices, a probe without *)
(* Types causes exactly N ProbeMatch datagrams, all to the source of that   *)
(* probe and each with another device uuid; when it is the first datagram   *)
(* the responder handles, every one carries MessageNumber 0, and when it is *)
(* the second and the first was a probe answered to the same source, every  *)
(* one carries MessageNumber 1.                                             *)
C1_ProbeWithoutTypes ==
    [][(MessageStep /\ Started /\ NoTypes(last'.dgram)) =>
          LET new == NewlySent
          IN /\ Len(new) = Len(servers)
             /\ \A i \in 1..Len(new) : new[i].to = last'.remote
             /\ \A i, j \in 1..Len(new) :
                   i # j => new[i].msg.address # new[j].msg.address
             /\ handled' = 1 =>
                   \A i \in 1..Len(new) : new[i].msg.messageNumber = 0
             /\ (/\ handled' = 2
                 /\ \E k \in 1..Len(sent) :
                       sent[k].evt = 1 /\ sent[k].to = last'.remote) =>
                   \A i \in 1..Len(new) : new[i].msg.messageNumber = 1]_vars

\* Two probes without Types from one source have been answered for
\* MaxDevices devices.
C1_Witness ==
    /\ handled = 2
    /\ last.act = "message"
    /\ NoTypes(last.dgram)
    /\ Len(servers) = MaxDevices
    /\ Len(sent) = 2 * MaxDevices
    /\ sent[1].to = last.remote
    /\ sent[1].msg.messageNumber = 0
    /\ sent[Len(sent)].msg.messageNumber = 1


-----------------------------------------------------------------------------
(* C3: one answered probe raises the counter of every registered device by  *)
(* exactly 1, and the pass of the response loop for one device leaves the   *)
(* counter of every other device as it was.                                 *)
C3_IndependentCounters ==
    /\ [][(MessageStep /\ Len(sent') > Len(sent)) =>
             \A i \in 1..Len(servers) :
                messageCounters'[servers[i].uuid] = messageCounters[servers[i].uuid] + 1]_vars
    /\ [](\A i \in 1..Len(servers) : \A remote \in Remotes :
             LET pass == ForEachServer(<<servers[i]>>, 1, Str(IdA), remote,
                                       responseSocket, messageCounters, <<>>)
             IN /\ pass.ctrs[servers[i].uuid] = messageCounters[servers[i].uuid] + 1
                /\ \A j \in 1..Len(servers) :
                      j # i => pass.ctrs[servers[j].uuid] = messageCounters[servers[j].uuid])

\* One probe has been answered for MaxDevices devices and every counter is 1.
C3_Witness ==
    /\ Answered
    /\ handled = 1
    /\ Len(servers) = MaxDevices
    /\ Len(sent) = MaxDevices
    /\ \A i \in 1..Len(servers) : messageCounters[servers[i].uuid] = 1

-----------------------------------------------------------------------------
-----------------------------------------------------------------------------
(* C7: in the log of datagrams sent, the responses of an earlier datagram   *)
(* come before those of a later one, and the responses of one datagram come *)
(* in the order in which the devices are registered.                        *)
Position(r) ==
    CHOOSE k \in 1..Len(servers) : r.msg.address = <<"urn:uuid:", servers[k].uuid>>

C7_RegistrationOrder ==
    \A p, q \in 1..Len(sent) :
       p < q => \/ sent[p].evt < sent[q].evt
                \/ /\ sent[p].evt = sent[q].evt
                   /\ Position(sent[p]) < Position(sent[q])

\* Two datagrams have been answered for MaxDevices devices.
C7_Witness ==
    /\ Len(servers) = MaxDevices
    /\ Len(sent) = 2 * MaxDevices
    /\ sent[1].evt = 1
    /\ sent[Len(sent)].evt = 2

-----------------------------------------------------------------------------
(* C8: a datagram whose text is not well-formed, so that parsing fails, is  *)
(* logged and dropped: nothing is sent, no counter changes, no exception    *)
(* leaves the handler, and the sockets and the references to them stay as   *)
(* they were.                                                               *)
C8_ParseFailureDropped ==
    [][(MessageStep /\ last'.dgram.wf = "garbage") =>
          /\ last'.logs = <<"trace: Failed to parse discovery message">>
          /\ ~last'.threw
          /\ UNCHANGED <<sent, messageCounters, socket, responseSocket, socks,
                         uncaught, running>>]_vars

\* A datagram that is not well-formed has just been handled by a started
\* responder whose receive socket is bound.
C8_Witness ==
    /\ last.act = "message"
    /\ last.dgram = Garbage
    /\ Started
    /\ socks[socket].st = "bound"
    /\ last.sock = socket

-----------------------------------------------------------------------------
(* C2: for a discovery envelope handled by a started responder, ProbeMatch  *)
(* datagrams are sent exactly when the type filter (the text of Types, the  *)
(* empty string when there is none) is empty or holds                       *)
(* NetworkVideoTransmitter; otherwise nothing is sent, no exception is      *)
(* thrown and no counter changes.                                           *)
TypeFilter(d) == IF d.types \in {"plain", "object"} THEN d.typesText ELSE <<>>

FilterMatches(d) ==
    TypeFilter(d) = <<>> \/ IndexOf(TypeFilter(d), NetworkVideoTransmitter) > -1

C2_FilterDecides ==
    [][(MessageStep /\ Started /\ IsEnvelope(last'.dgram)) =>
          /\ Len(sent') > Len(sent) <=> FilterMatches(last'.dgram)
          /\ ~FilterMatches(last'.dgram) =>
                ~last'.threw /\ UNCHANGED <<sent, messageCounters>>]_vars

\* A probe for another device type has been filtered out by a started responder.
C2_Witness ==
    /\ last.act = "message"
    /\ Started
    /\ last.dgram.typesText = TypesOther
    /\ ~last.threw
    /\ ~Answered

-----------------------------------------------------------------------------
(* C4: for every device, the MessageNumbers of the datagrams sent for it,   *)
(* in send order, are 0, 1, 2, ...                                          *)
C4_NumbersInSequence ==
    \A u \in DOMAIN messageCounters :
       \A k \in 1..Len(SentFor(u)) : SentFor(u)[k].msg.messageNumber = k - 1

\* Two datagrams have been sent for every device, numbered 0 and 1.
C4_Witness ==
    /\ Len(servers) = MaxDevices
    /\ \A u \in DOMAIN messageCounters :
          /\ Len(SentFor(u)) = 2
          /\ SentFor(u)[1].msg.messageNumber = 0
          /\ SentFor(u)[2].msg.messageNumber = 1

-----------------------------------------------------------------------------
(* C5: the counter of every device equals the number of ProbeMatch          *)
(* datagrams sent for it so far.                                            *)
C5_CounterIsCount ==
    \A u \in DOMAIN messageCounters : messageCounters[u] = Len(SentFor(u))

\* Datagrams have been sent and the counters of all devices count them.
C5_Witness ==
    /\ Len(servers) = MaxDevices
    /\ \A u \in DOMAIN messageCounters :
          messageCounters[u] = 2 /\ Len(SentFor(u)) = 2

-----------------------------------------------------------------------------
(* C9: handling a datagram that is blank, or XML without Envelope, without  *)
(* Header or without MessageID, throws nothing out of the handler, leaves   *)
(* the process running, sends nothing and changes no counter.               *)
C9_MalformedAbsorbed ==
    [][(MessageStep /\ last'.dgram \in Malformed \cup {Blank}) =>
          /\ ~last'.threw
          /\ running'
          /\ UNCHANGED <<sent, messageCounters, uncaught>>]_vars

\* A datagram without MessageID has been handled.
C9_Witness ==
    /\ last.act = "message"
    /\ last.dgram = NoMessageID
    /\ sent = <<>>
    /\ running

-----------------------------------------------------------------------------
(* C10: two datagrams that differ only in the form (plain or object) of     *)
(* MessageID or Types are handled alike, and a probe whose Types is absent  *)
(* or has no text is answered by a started responder.                       *)
SameButForm(d1, d2) ==
    /\ IsEnvelope(d1) /\ IsEnvelope(d2)
    /\ d1.mid \in {"plain", "object"} /\ d2.mid \in {"plain", "object"}
    /\ d1.midText = d2.midText
    /\ d1.body = d2.body
    /\ \/ d1.types = d2.types
       \/ d1.types \in {"plain", "object"} /\ d2.types \in {"plain", "object"}
    /\ d1.typesText = d2.typesText

C10_BothForms ==
    /\ \A d1, d2 \in Datagrams : \A remote \in Remotes :
          SameButForm(d1, d2) =>
             OnMessageResult(d1, FALSE, servers, remote, responseSocket, messageCounters)
             = OnMessageResult(d2, FALSE, servers, remote, responseSocket, messageCounters)
    /\ (/\ last.act = "message"
        /\ Started
        /\ IsEnvelope(last.dgram)
        /\ last.dgram.types \in {"none", "notext"}) => Answered

\* A probe with MessageID and Types in object form has been answered.
C10_Witness ==
    /\ Answered
    /\ last.dgram.mid = "object"
    /\ last.dgram.types = "object"
    /\ sent[Len(sent)].msg.relatesTo = last.dgram.midText


-----------------------------------------------------------------------------
\* The sockets of the responder that are open.
OpenSockets == {p \in SocketIds : socks[p].st # "closed"}

\* No socket of the responder is open and both references are cleared.
Stopped == socket = NULL /\ responseSocket = NULL /\ OpenSockets = {}

(* C11: a receive socket goes from closed to binding to bound and stays     *)
(* bound in every step but stop(); every stop() leaves the responder        *)
(* Stopped, with no socket of it open and both references cleared; and a    *)
(* datagram handled after stop() causes no ProbeMatch.                      *)
C11_Lifecycle ==
    [][/\ \A p \in SocketIds :
            /\ (socks[p].st = "closed" /\ socks'[p].st # "closed") =>
                   socks'[p].st \in {"binding", "open"}
            /\ (socks[p].st # "bound" /\ socks'[p].st = "bound") =>
                   socks[p].st = "binding"
            /\ (socks[p].st = "bound" /\ last'.act # "stop") =>
                   socks'[p].st = "bound"
       /\ last'.act = "stop" => Stopped'
       /\ (socket = NULL /\ MessageStep) => sent' = sent]_vars

\* stop() has closed both sockets of a responder that had answered a probe.
C11_Witness ==
    /\ last.act = "stop"
    /\ Len(last.closed) = 2
    /\ Stopped
    /\ sent # <<>>

-----------------------------------------------------------------------------
\* The distinct host IPs of the registered devices.
HostIPs == {servers[i].hostname : i \in 1..Len(servers)} \ {0}

\* The log lines of a bind callback that report a join that succeeded, and
\* those that report one that failed.
JoinedLines(logs) ==
    {i \in 1..Len(logs) : logs[i] = "trace: Joined multicast group"}

FailedLines(logs) ==
    {i \in 1..Len(logs) : logs[i] = "error: Failed to join multicast group"}

(* C12: when the bind of the responder's receive socket completes, the      *)
(* callback makes one join attempt per distinct host IP of the registered   *)
(* devices, none for a device without host IP; every attempt is logged as   *)
(* joined or as failed; each attempt logged as joined adds one membership   *)
(* that the socket did not have, a failed one adds none, whatever happened  *)
(* to the attempts before it; and the socket is bound afterwards.           *)
C12_JoinPerHost ==
    [][(last'.act = "bind" /\ socket # NULL /\ last'.sock = socket) =>
          LET before == socks[socket].joined
              after  == socks'[socket].joined
              logs   == last'.logs
          IN /\ Cardinality(JoinedLines(logs)) + Cardinality(FailedLines(logs))
                   = Cardinality(HostIPs)
             /\ Len(logs) = 1 + Cardinality(HostIPs)
             /\ before \subseteq after
             /\ after \subseteq HostIPs
             /\ Cardinality(after \ before) = Cardinality(JoinedLines(logs))
             /\ socks'[socket].st = "bound"]_vars

\* A bind callback of a responder with a device without host IP and of one
\* with two devices on one host IP; a join that failed followed by one that
\* succeeded.
C12_Witness ==
    /\ last.act = "bind"
    /\ last.sock = socket
    /\ Len(servers) = MaxDevices
    /\ Cardinality(HostIPs) < Len(servers)
    /\ \E i, j \in 1..Len(last.logs) :
          /\ i < j
          /\ i \in FailedLines(last.logs)
          /\ j \in JoinedLines(last.logs)

-----------------------------------------------------------------------------
\* The startup function has ended: it returned or the process exited.
Ended == main.pc \in {"done", "exited"}

\* The k-th configured device carries a mac that is on a host interface.
Resolves(k) == config.onvif[k].mac = "onhost"

-----------------------------------------------------------------------------
(* C14: when the startup function has ended, every device whose mac         *)
(* resolves has been started, every device whose mac does not resolve has   *)
(* been reported and not started, and a responder has been started if a     *)
(* device has.                                                              *)
C14_FatalForThatDevice ==
    Ended =>
        /\ \A k \in 1..Len(config.onvif) :
              IF Resolves(k)
              THEN main.listeners[k] # "none"
              ELSE /\ main.listeners[k] = "none"
                   /\ \E i \in 1..Len(main.reported) : main.reported[i] = k
        /\ main.servers # <<>> => Len(main.discoveries) = 1

\* A device whose mac does not resolve has been reported, in a
\* configuration with a device after it.
C14_Witness ==
    /\ main.reported # <<>>
    /\ main.reported[1] < Len(config.onvif)

-----------------------------------------------------------------------------
(* C15: when the startup function has ended and a device was started,       *)
(* exactly one responder has been started, over the started devices in      *)
(* start order; and a responder is started only when none has been, in the  *)
(* step that follows the delay of the last configured device, every         *)
(* configured device having been started.                                   *)
C15_OneResponder ==
    /\ [](Ended /\ main.servers # <<>> =>
             /\ Len(main.discoveries) = 1
             /\ main.discoveries[1] = main.servers
             /\ servers = main.servers
             /\ \A i, j \in 1..Len(servers) : i < j => servers[i].uuid < servers[j].uuid)
    /\ [][main'.discoveries # main.discoveries =>
             /\ main.discoveries = <<>>
             /\ main.pc = "sleep"
             /\ main.idx = Len(config.onvif)
             /\ \A k \in 1..Len(config.onvif) : main.listeners[k] # "none"]_vars

\* One responder was started over two or more started devices.
C15_Witness ==
    /\ main.pc = "done"
    /\ Len(main.discoveries) = 1
    /\ Len(main.discoveries[1]) >= 2
    /\ socket # NULL

-----------------------------------------------------------------------------
(* C16: with useDirectUrls set, the list of relay routes is empty and no    *)
(* relay has been requested, in every state and for every configuration.    *)
C16_DirectNoRelay ==
    config.useDirectUrls = "true" => main.proxies = <<>> /\ main.relays = <<>>

\* Direct mode, the function has returned, and a started device has both
\* rtsp ports and both snapshot ports configured.
C16_Witness ==
    /\ config.useDirectUrls = "true"
    /\ main.pc = "done"
    /\ \E k \in 1..Len(config.onvif) :
          /\ main.listeners[k] # "none"
          /\ config.onvif[k].ports.rtsp # 0
          /\ config.onvif[k].target.ports.rtsp # 0
          /\ config.onvif[k].ports.snapshot # 0
          /\ config.onvif[k].target.ports.snapshot # 0

-----------------------------------------------------------------------------
(* C17: only the handling of a datagram changes a counter: start(), stop(), *)
(* a bind completing with its joins, and a bind failing leave every counter *)
(* as it is, and so does the handling of a datagram that is dropped (not a  *)
(* discovery envelope) or filtered (its type filter does not match); no     *)
(* step lowers a counter, so numbering goes on after stop() and start().    *)
C17_OnlyReceivePath ==
    [][/\ ~MessageStep => UNCHANGED messageCounters
       /\ (MessageStep /\ ~IsEnvelope(last'.dgram)) => UNCHANGED messageCounters
       /\ (MessageStep /\ IsEnvelope(last'.dgram) /\ ~FilterMatches(last'.dgram)) =>
              UNCHANGED messageCounters
       /\ \A u \in DOMAIN messageCounters :
              messageCounters'[u] >= messageCounters[u]]_vars

\* start() after stop(), with a counter that has advanced.
C17_Witness ==
    /\ last.act = "start"
    /\ OpenSockets = {socket, responseSocket}
    /\ \E u \in DOMAIN messageCounters : messageCounters[u] > 0

-----------------------------------------------------------------------------
(* C18: a bind callback, or the handler of a discovery envelope whose Types *)
(* is absent or carries text, that runs when stop() has cleared the         *)
(* references throws nothing, sends nothing and changes no counter.         *)
C18_PendingAfterStop ==
    [][(socket = NULL /\ responseSocket = NULL
        /\ \/ last'.act = "bind"
           \/ /\ MessageStep
              /\ IsEnvelope(last'.dgram)
              /\ last'.dgram.types # "notext") =>
          /\ ~last'.threw
          /\ sent' = sent
          /\ UNCHANGED messageCounters]_vars

\* A bind callback ran after stop().
C18_Witness ==
    /\ last.act = "bind"
    /\ socket = NULL
    /\ responseSocket = NULL

-----------------------------------------------------------------------------
(* C19: in every state at most one receive socket and at most one send      *)
(* socket of the responder are open.                                        *)
C19_SingleListener ==
    /\ Cardinality({p \in OpenSockets : socks[p].kind = "recv"}) <= 1
    /\ Cardinality({p \in OpenSockets : socks[p].kind = "send"}) <= 1

\* start() after stop(): one pair of sockets is open.
C19_Witness ==
    /\ last.act = "start"
    /\ handled > 0
    /\ OpenSockets = {socket, responseSocket}

-----------------------------------------------------------------------------
(* C20: stop() throws nothing and leaves both references cleared; it calls  *)
(* close() only on sockets that are open, on none twice; and called with    *)
(* both references cleared, before any start() or after a stop(), it        *)
(* closes nothing and changes no socket, no counter and nothing sent.       *)
C20_StopIdempotent ==
    [][last'.act = "stop" =>
          /\ ~last'.threw
          /\ socket' = NULL
          /\ responseSocket' = NULL
          /\ \A i \in 1..Len(last'.closed) : socks[last'.closed[i]].st # "closed"
          /\ \A i, j \in 1..Len(last'.closed) :
                i # j => last'.closed[i] # last'.closed[j]
          /\ (socket = NULL /\ responseSocket = NULL) =>
                /\ last'.closed = <<>>
                /\ UNCHANGED <<socks, messageCounters, sent>>]_vars

\* stop() called on a responder that had answered a probe and was stopped.
C20_Witness ==
    /\ last.act = "stop"
    /\ last.closed = <<>>
    /\ Stopped
    /\ sent # <<>>

-----------------------------------------------------------------------------
\* Proxied mode: useDirectUrls is not set.
Proxied == config.useDirectUrls # "true"

\* The k-th configured device has been started.
StartedDevice(k) == main.listeners[k] # "none"

\* The host IP the k-th device, once started, resolved to.
HostIP(k) ==
    LET i == CHOOSE i \in 1..Len(main.servers) : main.servers[i].uuid = k
    IN main.servers[i].hostname

\* The relay route of the k-th device for its rtsp port and the one for its
\* snapshot port, read off the configuration.
RtspRoute(k) ==
    [sourceHostname |-> HostIP(k),
     sourcePort |-> config.onvif[k].ports.rtsp,
     targetHostname |-> config.onvif[k].target.hostname,
     targetPort |-> config.onvif[k].target.ports.rtsp]

SnapshotRoute(k) ==
    [sourceHostname |-> HostIP(k),
     sourcePort |-> config.onvif[k].ports.snapshot,
     targetHostname |-> config.onvif[k].target.hostname,
     targetPort |-> config.onvif[k].target.ports.snapshot]

\* How often route r occurs in the list of routes.
Count(routes, r) == Cardinality({i \in 1..Len(routes) : routes[i] = r})

\* The list of routes holds, for every started device, its rtsp route once
\* if both rtsp ports are configured and not at all otherwise, the same for
\* its snapshot route, nothing else, and the routes of a device before
\* those of the devices after it.
RoutesOfStartedDevices(routes) ==
    /\ \A k \in 1..Len(config.onvif) :
          StartedDevice(k) =>
              /\ Count(routes, RtspRoute(k))
                   = IF config.onvif[k].ports.rtsp # 0
                        /\ config.onvif[k].target.ports.rtsp # 0
                     THEN 1 ELSE 0
              /\ Count(routes, SnapshotRoute(k))
                   = IF config.onvif[k].ports.snapshot # 0
                        /\ config.onvif[k].target.ports.snapshot # 0
                     THEN 1 ELSE 0
    /\ \A i \in 1..Len(routes) :
          \E k \in 1..Len(config.onvif) :
              StartedDevice(k) /\ routes[i] \in {RtspRoute(k), SnapshotRoute(k)}
    /\ \A i, j \in 1..Len(routes) :
          \A k1, k2 \in 1..Len(config.onvif) :
              (/\ i < j
               /\ StartedDevice(k1) /\ StartedDevice(k2)
               /\ routes[i] \in {RtspRoute(k1), SnapshotRoute(k1)}
               /\ routes[j] \in {RtspRoute(k2), SnapshotRoute(k2)}) => k1 <= k2

(* C21: in proxied mode, when the startup function has ended, the route     *)
(* list holds for each started device one rtsp route iff both rtsp ports    *)
(* are configured and one snapshot route iff both snapshot ports are, each  *)
(* from (host IP, own port) to (target hostname, target port), in device    *)
(* order; when it has returned, the relays requested are that list; relays  *)
(* are requested in one step, with every configured device and one          *)
(* responder started; and no startServer or discovery.start is called after *)
(* a createProxy.                                                           *)
C21_RelayRoutes ==
    /\ []((Proxied /\ Ended) => RoutesOfStartedDevices(main.proxies))
    /\ []((Proxied /\ main.pc = "done") =>
             /\ main.relays = main.proxies
             /\ RoutesOfStartedDevices(main.relays))
    /\ [](\A i, j \in 1..Len(main.calls) :
             (i < j /\ main.calls[i] = "createProxy") =>
                 main.calls[j] = "createProxy")
    /\ [](Cardinality({i \in 1..Len(main.calls) : main.calls[i] = "createProxy"})
             = Len(main.relays))
    /\ [][main'.relays # main.relays =>
             /\ main.relays = <<>>
             /\ \A k \in 1..Len(config.onvif) : main'.listeners[k] # "none"
             /\ Len(main'.discoveries) = 1
             /\ \E i \in 1..Len(main'.calls) : main'.calls[i] = "discovery.start"]_vars

\* Proxied mode, the function has returned: a started device with all four
\* ports, whose two relays were requested, and a started device after it
\* that lacks a target port.
C21_Witness ==
    /\ Proxied
    /\ main.pc = "done"
    /\ Len(config.onvif) >= 2
    /\ config.onvif[1] = Device("onhost", 8554, 8580, 554, 80)
    /\ config.onvif[2] = Device("onhost", 8554, 8580, 0, 80)
    /\ Len(main.relays) >= 3

=============================================================================
